---------------------------- MODULE Spec2Model ----------------------------
(* Smart-ToDo (src/app.py): a Flask application over three SQLAlchemy     *)
(* tables (User, Column, Task), session authentication and a background   *)
(* reminder thread.  Text values are sequences of one-character strings   *)
(* so that strip(), lower() and int() are computed, not assumed.          *)
EXTENDS Integers, Sequences, FiniteSets, TLC

VARIABLES
    users,        \* table user: sequence of rows, the id is the index
    columns,      \* table column: id -> [name, position, user_id]
    tasks,        \* table task: id -> row
    session,      \* per browser: session['user_id'], 0 when the key is absent
    resp,         \* the response to the last request
    mailConfigured, \* MAIL_USERNAME and MAIL_PASSWORD are both set
    clock,        \* datetime.now(), in seconds
    wpc,          \* reminder_worker: "sleep", "loop", "disarm" or "crashed"
    wnow,         \* reminder_worker: now
    wwake,        \* reminder_worker: end of time.sleep(60)
    wlist,        \* reminder_worker: tasks (the query result, as ids)
    wi,           \* reminder_worker: position of the for loop in tasks
    wrows,        \* reminder_worker: loaded attributes of the session's Task objects
    wexp,         \* reminder_worker: Task objects expired by the last commit
    attempts,     \* history: id -> outcomes of mail.send in the current cycle
    prevAttempts, \* history: attempts of the cycle before
    snapEligible, \* history: ids armed and not complete when the cycle's query ran
    streak,       \* history: cycles started since the last request (at most 2)
    ecalls,       \* history: consecutive direct calls of ensure_default_columns
    euser         \* history: the user of those calls

vars == <<users, columns, tasks, session, resp, mailConfigured, clock,
          wpc, wnow, wwake, wlist, wi, wrows, wexp,
          attempts, prevAttempts, snapEligible, streak, ecalls, euser>>

--------------------------------------------------------------------------
(* Bounds *)
MaxTasks == 1          \* rows of table task, request specification
MaxWorkerTasks == 1    \* rows of table task, reminder specification
MaxExtraColumns == 1   \* columns created by add_column
MaxCycles == 1         \* the clock stops after this many sleep intervals

(* Program constants *)
SleepSeconds == 60
WindowSeconds == 300

--------------------------------------------------------------------------
(* Text *)
Upper == <<"A","B","C","D","E","F","G","H","I","J","K","L","M",
           "N","O","P","Q","R","S","T","U","V","W","X","Y","Z">>
Lowercase == <<"a","b","c","d","e","f","g","h","i","j","k","l","m",
               "n","o","p","q","r","s","t","u","v","w","x","y","z">>
Digits == <<"0","1","2","3","4","5","6","7","8","9">>

LowerChar(c) ==
    IF \E i \in 1..26 : Upper[i] = c
    THEN Lowercase[CHOOSE i \in 1..26 : Upper[i] = c]
    ELSE c

\* str.lower()
lower(s) == [i \in 1..Len(s) |-> LowerChar(s[i])]

RECURSIVE lstrip(_)
lstrip(s) == IF s # <<>> /\ Head(s) = " " THEN lstrip(Tail(s)) ELSE s

RECURSIVE rstrip(_)
rstrip(s) ==
    IF s # <<>> /\ s[Len(s)] = " " THEN rstrip(SubSeq(s, 1, Len(s) - 1)) ELSE s

\* str.strip()
strip(s) == rstrip(lstrip(s))

IsDigit(c) == \E i \in 1..10 : Digits[i] = c
DigitVal(c) == (CHOOSE i \in 1..10 : Digits[i] = c) - 1

\* int(s) succeeds on a non-empty string of decimal digits
IsInt(s) == s # <<>> /\ \A i \in 1..Len(s) : IsDigit(s[i])

RECURSIVE int(_)
int(s) == IF s = <<>> THEN 0
          ELSE 10 * int(SubSeq(s, 1, Len(s) - 1)) + DigitVal(s[Len(s)])

\* The names of the code
ToDo == <<"T","o"," ","D","o">>
InProgress == <<"I","n"," ","P","r","o","g","r","e","s","s">>
Done == <<"D","o","n","e">>
Completed == <<"C","o","m","p","l","e","t","e","d">>
Pending == <<"P","e","n","d","i","n","g">>
MyStage == <<"M","y"," ","S","t","a","g","e">>
todo == <<"t","o","d","o">>
Medium == <<"M","e","d","i","u","m">>
High == <<"H","i","g","h">>

Max(S) == CHOOSE x \in S : \A y \in S : y <= x

\* INTEGER PRIMARY KEY of SQLite: one more than the largest id in the table
NewId(table) == IF DOMAIN table = {} THEN 1 ELSE Max(DOMAIN table) + 1

--------------------------------------------------------------------------
(* Passwords *)
generate_password_hash(password) == <<"#">> \o password
check_password_hash(hashed, password) == hashed = generate_password_hash(password)

--------------------------------------------------------------------------
(* Responses *)
Response(ep, code, kind, to, flash, category) ==
    [ep |-> ep, code |-> code, kind |-> kind, to |-> to,
     flash |-> flash, category |-> category]

NoResponse == Response("", 0, "", "", "", "")

\* login_required: the wrapper's answer when 'user_id' is not in the session
LoginRedirect(ep) ==
    Response(ep, 302, "redirect", "login", "Please login first!", "warning")

login_required(c) == session[c] # 0

--------------------------------------------------------------------------
(* Columns *)
UserColumns(cols, user_id) == {id \in DOMAIN cols : cols[id].user_id = user_id}

defaults == <<ToDo, InProgress, Done>>

ensure_default_columns_always(cols, user_id) ==
    LET n == NewId(cols)
        new == n..(n + Len(defaults) - 1)
    IN  [id \in DOMAIN cols \cup new |->
            IF id \in DOMAIN cols THEN cols[id]
            ELSE [name |-> defaults[id - n + 1], position |-> id - n,
                  user_id |-> user_id]]

ensure_default_columns(cols, user_id) ==
    IF UserColumns(cols, user_id) = {}
    THEN LET n == NewId(cols)
             new == n..(n + Len(defaults) - 1)
         IN  [id \in DOMAIN cols \cup new |->
                 IF id \in DOMAIN cols THEN cols[id]
                 ELSE [name |-> defaults[id - n + 1], position |-> id - n,
                       user_id |-> user_id]]
    ELSE cols

\* Column.query.filter_by(user_id=...).order_by(Column.position).first().id;
\* among equal positions SQLite returns the row with the lowest id
FirstColumnId(cols, user_id) ==
    LET own == UserColumns(cols, user_id)
    IN  CHOOSE id \in own : \A o \in own :
            \/ cols[id].position < cols[o].position
            \/ cols[id].position = cols[o].position /\ id <= o

--------------------------------------------------------------------------
(* Initial state: db.create_all() on an empty database, no session *)
Clients == {"c1"}

Init ==
    /\ users = <<>>
    /\ columns = <<>>
    /\ tasks = <<>>
    /\ session = [c \in Clients |-> 0]
    /\ resp = NoResponse
    /\ mailConfigured \in BOOLEAN
    /\ clock = 0
    /\ wpc = "sleep"
    /\ wnow = 0
    /\ wwake = 0
    /\ wlist = <<>>
    /\ wi = 1
    /\ wrows = <<>>
    /\ wexp = {}
    /\ attempts = <<>>
    /\ prevAttempts = <<>>
    /\ snapEligible = {}
    /\ streak = 0
    /\ ecalls = 0
    /\ euser = 0

--------------------------------------------------------------------------
(* Auth *)
NormalizeEmailNoLower(email) == strip(email)

\* (request.form.get('email') or "").strip().lower()
NormalizeEmail(email) == lower(strip(email))

UserByEmail(email) == {id \in 1..Len(users) : users[id].email = email}

signup(name, email, password) ==
    LET n == strip(name)
        e == NormalizeEmail(email)
        p == strip(password)
    IN  IF n = <<>> \/ e = <<>> \/ p = <<>>
        THEN /\ resp' = Response("signup", 200, "html", "", "Please fill all fields.", "danger")
             /\ UNCHANGED <<users, columns, tasks, session>>
        ELSE IF UserByEmail(e) # {}
        THEN /\ resp' = Response("signup", 200, "html", "", "Email already registered.", "warning")
             /\ UNCHANGED <<users, columns, tasks, session>>
        ELSE /\ users' = Append(users, [name |-> n, email |-> e,
                                        password |-> generate_password_hash(p)])
             /\ columns' = ensure_default_columns(columns, Len(users) + 1)
             /\ resp' = Response("signup", 302, "redirect", "login", "Account created", "success")
             /\ UNCHANGED <<tasks, session>>

login(c, email, password) ==
    LET e == NormalizeEmail(email)
        p == strip(password)
        found == UserByEmail(e)
    IN  IF e = <<>> \/ p = <<>>
        THEN /\ resp' = Response("login", 200, "html", "", "Enter email and password.", "danger")
             /\ UNCHANGED <<users, columns, tasks, session>>
        ELSE IF found # {} /\ check_password_hash(users[CHOOSE id \in found : TRUE].password, p)
        THEN /\ session' = [session EXCEPT ![c] = CHOOSE id \in found : TRUE]
             /\ resp' = Response("login", 302, "redirect", "index", "Welcome", "success")
             /\ UNCHANGED <<users, columns, tasks>>
        ELSE /\ resp' = Response("login", 200, "html", "", "Invalid credentials.", "danger")
             /\ UNCHANGED <<users, columns, tasks, session>>

logout(c) ==
    /\ session' = [session EXCEPT ![c] = 0]
    /\ resp' = Response("logout", 302, "redirect", "login", "Logged out.", "info")
    /\ UNCHANGED <<users, columns, tasks>>

--------------------------------------------------------------------------
(* Board and task manager *)
ReqUnchanged == UNCHANGED <<users, columns, tasks, session>>

\* read-only pages: index, completed, pending
view(c, ep) ==
    /\ resp' = IF ~login_required(c) THEN LoginRedirect(ep)
               ELSE Response(ep, 200, "html", "", "", "")
    /\ ReqUnchanged

\* default_names of workflow (line 147)
default_names == {ToDo, InProgress, Completed, Pending, Done}

\* The missing names of default_names are added to the session (lines
\* 150-153) and the handler never commits: the session is removed with the
\* request and the added rows are rolled back.  The commit inside
\* ensure_default_columns is the only write that persists.
workflow(c) ==
    IF ~login_required(c)
    THEN /\ resp' = LoginRedirect("workflow")
         /\ ReqUnchanged
    ELSE LET committed == ensure_default_columns(columns, session[c])
             existing_names == {committed[id].name :
                                   id \in UserColumns(committed, session[c])}
             added == default_names \ existing_names
         IN  /\ columns' = committed
             /\ resp' = Response("workflow", 200, "html", "", "", "")
             /\ UNCHANGED <<users, tasks, session>>

TitleOfNoStrip(title) == title

\* (request.form.get("title") or "").strip()
TitleOf(title) == strip(title)

\* datetime.strptime(due, "%Y-%m-%dT%H:%M") inside try/except: a date is
\* written here as its count of minutes in decimal digits and becomes a
\* time in seconds; any other text fails to parse and an absent or empty
\* field is not parsed.  <<>> is None.
ParseDue(due) ==
    IF due # <<>> /\ IsInt(due) THEN <<60 * int(due)>> ELSE <<>>

ResolveColumnAnyOwner(cols, user_id, column_id) ==
    IF column_id # <<>> /\ IsInt(column_id) /\ int(column_id) \in DOMAIN cols
    THEN int(column_id)
    ELSE FirstColumnId(cols, user_id)

\* lines 213-223, after ensure_default_columns
ResolveColumn(cols, user_id, column_id) ==
    IF column_id # <<>>
    THEN IF IsInt(column_id)
         THEN IF int(column_id) \in UserColumns(cols, user_id)
              THEN int(column_id)
              ELSE FirstColumnId(cols, user_id)
         ELSE FirstColumnId(cols, user_id)
    ELSE IF UserColumns(cols, user_id) # {}
         THEN FirstColumnId(cols, user_id)
         ELSE 0

add(c, title, desc, due, priority, column_id, reminder) ==
    IF ~login_required(c)
    THEN /\ resp' = LoginRedirect("add")
         /\ ReqUnchanged
    ELSE IF TitleOf(title) = <<>>
    THEN /\ resp' = Response("add", 302, "redirect", "referrer", "Title required", "danger")
         /\ ReqUnchanged
    ELSE LET user_id == session[c]
             cols == ensure_default_columns(columns, user_id)
             task == [title |-> TitleOf(title),
                      description |-> desc,
                      due_date |-> ParseDue(due),
                      priority |-> IF priority = <<>> THEN Medium ELSE priority,
                      complete |-> FALSE,
                      reminder_set |-> reminder,
                      status |-> todo,
                      user_id |-> user_id,
                      column_id |-> ResolveColumn(cols, user_id, column_id)]
             id == NewId(tasks)
         IN  /\ columns' = cols
             /\ tasks' = [i \in DOMAIN tasks \cup {id} |->
                             IF i = id THEN task ELSE tasks[i]]
             /\ resp' = Response("add", 302, "redirect", "referrer", "Task added.", "success")
             /\ UNCHANGED <<users, session>>

add_column(c, name) ==
    IF ~login_required(c)
    THEN /\ resp' = LoginRedirect("add_column")
         /\ ReqUnchanged
    ELSE IF strip(name) = <<>>
    THEN /\ resp' = Response("add_column", 302, "redirect", "workflow", "Name required", "danger")
         /\ ReqUnchanged
    ELSE LET user_id == session[c]
             pos == Cardinality(UserColumns(columns, user_id))
             id == NewId(columns)
         IN  /\ columns' = [i \in DOMAIN columns \cup {id} |->
                               IF i = id
                               THEN [name |-> strip(name), position |-> pos,
                                     user_id |-> user_id]
                               ELSE columns[i]]
             /\ resp' = Response("add_column", 302, "redirect", "workflow", "Column added.", "success")
             /\ UNCHANGED <<users, tasks, session>>

\* Task.query.get_or_404(id) aborts the request with 404
NotFound(ep) == Response(ep, 404, "html", "", "", "")

update_column(c, task_id, col_id) ==
    IF ~login_required(c)
    THEN /\ resp' = LoginRedirect("update_column")
         /\ ReqUnchanged
    ELSE IF task_id \notin DOMAIN tasks
    THEN /\ resp' = NotFound("update_column")
         /\ ReqUnchanged
    ELSE IF tasks[task_id].user_id # session[c]
    THEN /\ resp' = Response("update_column", 403, "json", "", "Unauthorized", "error")
         /\ ReqUnchanged
    ELSE IF col_id \notin UserColumns(columns, session[c])
    THEN /\ resp' = Response("update_column", 404, "json", "", "Column not found", "error")
         /\ ReqUnchanged
    ELSE /\ tasks' = [tasks EXCEPT ![task_id].column_id = col_id,
                                   ![task_id].status = lower(columns[col_id].name)]
         /\ resp' = Response("update_column", 200, "json", "", "", "")
         /\ UNCHANGED <<users, columns, session>>

update_status(c, task_id, new_status) ==
    IF ~login_required(c)
    THEN /\ resp' = LoginRedirect("update_status")
         /\ ReqUnchanged
    ELSE IF task_id \notin DOMAIN tasks
    THEN /\ resp' = NotFound("update_status")
         /\ ReqUnchanged
    ELSE IF tasks[task_id].user_id # session[c]
    THEN /\ resp' = Response("update_status", 403, "json", "", "Unauthorized", "error")
         /\ ReqUnchanged
    ELSE /\ tasks' = [tasks EXCEPT ![task_id].status = new_status]
         /\ resp' = Response("update_status", 200, "json", "", "", "")
         /\ UNCHANGED <<users, columns, session>>

toggle_reminder(c, id) ==
    IF ~login_required(c)
    THEN /\ resp' = LoginRedirect("toggle_reminder")
         /\ ReqUnchanged
    ELSE IF id \notin DOMAIN tasks
    THEN /\ resp' = NotFound("toggle_reminder")
         /\ ReqUnchanged
    ELSE IF tasks[id].user_id # session[c]
    THEN /\ resp' = Response("toggle_reminder", 302, "redirect", "referrer", "Not authorized", "danger")
         /\ ReqUnchanged
    ELSE /\ tasks' = [tasks EXCEPT ![id].reminder_set = ~tasks[id].reminder_set]
         /\ resp' = Response("toggle_reminder", 302, "redirect", "referrer", "Reminder toggled.", "info")
         /\ UNCHANGED <<users, columns, session>>

toggle(c, id) ==
    IF ~login_required(c)
    THEN /\ resp' = LoginRedirect("toggle")
         /\ ReqUnchanged
    ELSE IF id \notin DOMAIN tasks
    THEN /\ resp' = NotFound("toggle")
         /\ ReqUnchanged
    ELSE IF tasks[id].user_id # session[c]
    THEN /\ resp' = Response("toggle", 302, "redirect", "index", "Not authorized.", "danger")
         /\ ReqUnchanged
    ELSE /\ tasks' = [tasks EXCEPT ![id].complete = ~tasks[id].complete]
         /\ resp' = Response("toggle", 302, "redirect", "referrer", "Task updated.", "success")
         /\ UNCHANGED <<users, columns, session>>

delete(c, id) ==
    IF ~login_required(c)
    THEN /\ resp' = LoginRedirect("delete")
         /\ ReqUnchanged
    ELSE IF id \notin DOMAIN tasks
    THEN /\ resp' = NotFound("delete")
         /\ ReqUnchanged
    ELSE IF tasks[id].user_id # session[c]
    THEN /\ resp' = Response("delete", 302, "redirect", "index", "Not authorized.", "danger")
         /\ ReqUnchanged
    ELSE /\ tasks' = [i \in DOMAIN tasks \ {id} |-> tasks[i]]
         /\ resp' = Response("delete", 302, "redirect", "referrer", "Task deleted.", "info")
         /\ UNCHANGED <<users, columns, session>>

\* Line 374 reads default_names, a name bound only inside workflow(): the
\* test raises NameError whenever `column` is truthy (the `and` evaluates its
\* right operand), and the request ends with status 500.
delete_column(c, column_id) ==
    IF ~login_required(c)
    THEN /\ resp' = LoginRedirect("delete_column")
         /\ ReqUnchanged
    ELSE IF column_id \in DOMAIN columns
    THEN /\ resp' = Response("delete_column", 500, "error", "", "NameError: default_names", "")
         /\ ReqUnchanged
    ELSE /\ resp' = Response("delete_column", 302, "redirect", "workflow",
                             "You cannot delete default columns.", "warning")
         /\ ReqUnchanged

\* No comparison of task.user_id with the session.  A non-empty due_date is
\* assigned as a str, which the DateTime column refuses at the flush of
\* db.session.commit(): the request ends with status 500 and nothing is
\* written.
edit_task(c, task_id, title, description, due_date, priority) ==
    IF ~login_required(c)
    THEN /\ resp' = LoginRedirect("edit_task")
         /\ ReqUnchanged
    ELSE IF task_id \notin DOMAIN tasks
    THEN /\ resp' = Response("edit_task", 302, "redirect", "workflow", "Task not found!", "danger")
         /\ ReqUnchanged
    ELSE IF due_date # <<>>
    THEN /\ resp' = Response("edit_task", 500, "error", "", "StatementError: due_date", "")
         /\ ReqUnchanged
    ELSE /\ tasks' = [tasks EXCEPT ![task_id].title = title,
                                   ![task_id].description = description,
                                   ![task_id].due_date = <<>>,
                                   ![task_id].priority = priority]
         /\ resp' = Response("edit_task", 302, "redirect", "workflow", "Task updated!", "success")
         /\ UNCHANGED <<users, columns, session>>

--------------------------------------------------------------------------
(* Requests: every handler, one browser, no reminder thread *)
NameInputs == {<<"n">>}
EmailInputs == {<<"a">>, <<" ","A">>, <<"A"," ">>, <<"b">>, <<" ">>}
PasswordInputs == {<<"p">>}
LoginPasswords == {<<"p">>, <<"q">>}
TitleInputs == {<<>>, <<" ">>, <<" ","a">>}
DueInputs == {<<>>, <<"x">>}
ColumnIdInputs == {<<>>, <<"x">>, <<"2">>, <<"5">>, <<"9">>}
MoveTargets == {2, 5}
StatusInputs == {<<"x">>}
Pages == {"index", "completed", "pending"}
TaskIds == 1..MaxTasks

RequestFrame ==
    UNCHANGED <<mailConfigured, clock, wpc, wnow, wwake, wlist, wi, wrows, wexp,
                attempts, prevAttempts, snapEligible, streak, ecalls, euser>>

ExtraColumns == Cardinality(DOMAIN columns) - Len(defaults) * Len(users)

Next ==
    \/ \E n \in NameInputs, e \in EmailInputs, p \in PasswordInputs :
          signup(n, e, p) /\ RequestFrame
    \/ \E c \in Clients, e \in EmailInputs, p \in LoginPasswords :
          login(c, e, p) /\ RequestFrame
    \/ \E c \in Clients : logout(c) /\ RequestFrame
    \/ \E c \in Clients, ep \in Pages : view(c, ep) /\ RequestFrame
    \/ \E c \in Clients : workflow(c) /\ RequestFrame
    \/ \E c \in Clients, t \in TitleInputs, due \in DueInputs,
          col \in ColumnIdInputs, rem \in BOOLEAN :
          /\ Cardinality(DOMAIN tasks) < MaxTasks
          /\ add(c, t, <<>>, due, <<>>, col, rem)
          /\ RequestFrame
    \/ \E c \in Clients, n \in {MyStage, <<" ">>} :
          /\ ExtraColumns < MaxExtraColumns
          /\ add_column(c, n)
          /\ RequestFrame
    \/ \E c \in Clients, id \in TaskIds, col \in MoveTargets :
          update_column(c, id, col) /\ RequestFrame
    \/ \E c \in Clients, id \in TaskIds, st \in StatusInputs :
          update_status(c, id, st) /\ RequestFrame
    \/ \E c \in Clients, id \in TaskIds : toggle_reminder(c, id) /\ RequestFrame
    \/ \E c \in Clients, id \in TaskIds : toggle(c, id) /\ RequestFrame
    \/ \E c \in Clients, id \in TaskIds : delete(c, id) /\ RequestFrame
    \/ \E c \in Clients, id \in DOMAIN columns \cup {NewId(columns)} :
          delete_column(c, id) /\ RequestFrame
    \/ \E c \in Clients, id \in TaskIds, due \in {<<>>, <<"4">>} :
          edit_task(c, id, <<"b">>, <<"d">>, due, High) /\ RequestFrame

Spec == Init /\ [][Next]_vars

--------------------------------------------------------------------------
(* Claims about the requests *)

\* The answer is a refusal: no success message and no success payload
Rejected(r) ==
    /\ r.category \notin {"success", "info"}
    /\ ~(r.kind = "json" /\ r.code = 200)

\* A request of browser c on task id: complete, reminder, edit, move, status, delete
TaskRequest(c, id) ==
    \/ toggle(c, id)
    \/ toggle_reminder(c, id)
    \/ \E due \in {<<>>, <<"4">>} : edit_task(c, id, <<"b">>, <<"d">>, due, High)
    \/ \E col \in MoveTargets : update_column(c, id, col)
    \/ \E st \in StatusInputs : update_status(c, id, st)
    \/ delete(c, id)

\* C1: a request made in a session of user A on a task owned by another user
\* B is rejected and leaves the task table as it was.
C1_ForeignTaskUntouched ==
    [][\A c \in Clients, id \in TaskIds :
          (/\ session[c] # 0
           /\ id \in DOMAIN tasks
           /\ tasks[id].user_id # session[c]
           /\ TaskRequest(c, id))
          => (tasks' = tasks /\ Rejected(resp'))]_vars

\* default_columns of delete_column (line 372)
default_columns == {ToDo, InProgress, Pending, Done}

\* C3: delete_column by an authenticated user on an existing column is
\* refused with a warning and changes no column when the name is a default
\* name, and removes exactly that column otherwise.
C3_DeleteColumnByName ==
    [][\A c \in Clients, id \in DOMAIN columns :
          (session[c] # 0 /\ delete_column(c, id))
          => IF columns[id].name \in default_columns
             THEN columns' = columns /\ resp'.category = "warning"
             ELSE /\ DOMAIN columns' = DOMAIN columns \ {id}
                  /\ \A k \in DOMAIN columns' : columns'[k] = columns[k]
                  /\ resp'.category = "success"]_vars

Blank(text) == \A i \in 1..Len(text) : text[i] = " "

\* C4: an add request whose title is empty or only whitespace changes no
\* table, and in a logged-in session it ends with the validation error.
C4_BlankTitleRejected ==
    [][\A c \in Clients, t \in TitleInputs, due \in DueInputs,
          col \in ColumnIdInputs :
          (resp'.ep = "add" /\ Blank(t) /\ add(c, t, <<>>, due, <<>>, col, FALSE))
          => /\ UNCHANGED <<users, columns, tasks>>
             /\ session[c] # 0 =>
                   resp'.flash = "Title required" /\ resp'.category = "danger"]_vars

C4_Witness ==
    /\ resp.ep = "add"
    /\ resp.flash = "Title required"
    /\ \E c \in Clients : session[c] # 0 /\ UserColumns(columns, session[c]) # {}

BoardEndpoints ==
    Pages \cup {"workflow", "add", "add_column", "update_column", "update_status",
                "toggle_reminder", "toggle", "delete", "delete_column", "edit_task"}

\* C6: a board or task request without a user in the session changes no
\* table; update_column and update_status answer with an unauthorized JSON
\* payload and status, every other endpoint with the redirect to login and
\* its warning.
C6_UnauthenticatedAnswer ==
    [][(\A c \in Clients : session[c] = 0) /\ resp'.ep \in BoardEndpoints
          => /\ UNCHANGED <<users, columns, tasks>>
             /\ IF resp'.ep \in {"update_column", "update_status"}
                THEN /\ resp'.kind = "json"
                     /\ resp'.code \in {401, 403}
                ELSE /\ resp'.kind = "redirect"
                     /\ resp'.to = "login"
                     /\ resp'.category = "warning"]_vars

SameEmail(a, b) == lower(strip(a)) = lower(strip(b))

\* C7: no two users have the same email compared case-insensitively, every
\* stored email is trimmed and lower-cased, and a signup whose email equals
\* a stored one after normalization is refused with a warning and creates
\* neither a user nor a column.
C7_EmailsUnique ==
    [][/\ \A i, j \in 1..Len(users') :
             i # j => ~SameEmail(users'[i].email, users'[j].email)
       /\ \A i \in 1..Len(users') :
             users'[i].email = lower(strip(users'[i].email))
       /\ \A n \in NameInputs, e \in EmailInputs, p \in PasswordInputs :
             (/\ resp'.ep = "signup"
              /\ \E i \in 1..Len(users) : SameEmail(users[i].email, e)
              /\ signup(n, e, p))
             => /\ users' = users
                /\ columns' = columns
                /\ resp'.category = "warning"]_vars

C7_Witness ==
    /\ Len(users) = 2
    /\ resp.ep = "signup"
    /\ resp.flash = "Email already registered."

\* C9: after a workflow request of user U the columns of U have every name
\* of default_names, every column U had is still there with its name, and a
\* second request adds nothing.
C9_WorkflowRepairs ==
    [][\A c \in Clients :
          (session[c] # 0 /\ workflow(c))
          => /\ \A name \in default_names :
                   \E id \in UserColumns(columns', session[c]) :
                       columns'[id].name = name
             /\ \A id \in DOMAIN columns :
                   id \in DOMAIN columns' /\ columns'[id].name = columns[id].name
             /\ UserColumns(columns, session[c]) # {} => columns' = columns]_vars

--------------------------------------------------------------------------
(* Accounts: signup, login, logout and the pages and columns of a session *)
NextAuth ==
    \/ \E n \in NameInputs \cup {<<>>}, e \in EmailInputs, p \in PasswordInputs :
          signup(n, e, p) /\ RequestFrame
    \/ \E c \in Clients, e \in EmailInputs, p \in LoginPasswords :
          login(c, e, p) /\ RequestFrame
    \/ \E c \in Clients : logout(c) /\ RequestFrame
    \/ \E c \in Clients, ep \in Pages : view(c, ep) /\ RequestFrame
    \/ \E c \in Clients : workflow(c) /\ RequestFrame
    \/ \E c \in Clients, n \in {MyStage, <<" ">>} :
          /\ ExtraColumns < MaxExtraColumns
          /\ add_column(c, n)
          /\ RequestFrame

SpecAuth == Init /\ [][NextAuth]_vars

--------------------------------------------------------------------------
(* Columns: ensure_default_columns, add_column and add, from a database    *)
(* whose users own no column yet: signup commits the user (line 332)        *)
(* before it calls ensure_default_columns (line 334), and add and workflow *)
(* call it again for that case.                                            *)
ExistingUsers ==
    <<[name |-> <<"n">>, email |-> <<"a">>, password |-> generate_password_hash(<<"p">>)],
      [name |-> <<"n">>, email |-> <<"b">>, password |-> generate_password_hash(<<"p">>)]>>

InitColumns ==
    /\ users = ExistingUsers
    /\ columns = <<>>
    /\ tasks = <<>>
    /\ session = [c \in Clients |-> 0]
    /\ resp = NoResponse
    /\ mailConfigured = FALSE
    /\ clock = 0
    /\ wpc = "sleep"
    /\ wnow = 0
    /\ wwake = 0
    /\ wlist = <<>>
    /\ wi = 1
    /\ wrows = <<>>
    /\ wexp = {}
    /\ attempts = <<>>
    /\ prevAttempts = <<>>
    /\ snapEligible = {}
    /\ streak = 0
    /\ ecalls = 0
    /\ euser = 0

\* A call of ensure_default_columns(user_id), counted when it repeats
EnsureCall(user_id) ==
    /\ columns' = ensure_default_columns(columns, user_id)
    /\ ecalls' = IF euser = user_id /\ ecalls > 0 THEN 2 ELSE 1
    /\ euser' = user_id
    /\ UNCHANGED <<users, tasks, session, resp, mailConfigured, clock,
                   wpc, wnow, wwake, wlist, wi, wrows, wexp,
                   attempts, prevAttempts, snapEligible, streak>>

ColumnsFrame ==
    /\ ecalls' = 0
    /\ euser' = 0
    /\ UNCHANGED <<mailConfigured, clock, wpc, wnow, wwake, wlist, wi, wrows, wexp,
                   attempts, prevAttempts, snapEligible, streak>>

ColumnsCreated == Cardinality({id \in DOMAIN columns : columns[id].name = MyStage})

NextColumns ==
    \/ \E u \in 1..Len(users) : EnsureCall(u)
    \/ \E c \in Clients, e \in {<<"a">>, <<"b">>} :
          login(c, e, <<"p">>) /\ ColumnsFrame
    \/ \E c \in Clients, t \in TitleInputs, due \in DueInputs,
          col \in ColumnIdInputs :
          /\ Cardinality(DOMAIN tasks) < MaxTasks
          /\ add(c, t, <<>>, due, <<>>, col, FALSE)
          /\ ColumnsFrame
    \/ \E c \in Clients :
          /\ ColumnsCreated < MaxExtraColumns
          /\ add_column(c, MyStage)
          /\ ColumnsFrame
    \/ \E c \in Clients, id \in TaskIds : delete(c, id) /\ ColumnsFrame

SpecColumns == InitColumns /\ [][NextColumns]_vars

IsDefaultSet(cols, ids, user_id) ==
    /\ Cardinality(ids) = 3
    /\ \E a, b, d \in ids :
          /\ cols[a] = [name |-> ToDo, position |-> 0, user_id |-> user_id]
          /\ cols[b] = [name |-> InProgress, position |-> 1, user_id |-> user_id]
          /\ cols[d] = [name |-> Done, position |-> 2, user_id |-> user_id]

\* C5: ensure_default_columns(U) gives a user without columns exactly To Do,
\* In Progress, Done at positions 0, 1, 2 and changes nothing else; for a
\* user with a column it creates nothing; the second of two calls in
\* succession creates nothing.
C5_EnsureIdempotent ==
    [][\A u \in 1..Len(users) :
          EnsureCall(u)
          => /\ \A id \in DOMAIN columns :
                   id \in DOMAIN columns' /\ columns'[id] = columns[id]
             /\ IF UserColumns(columns, u) = {}
                THEN /\ IsDefaultSet(columns', DOMAIN columns' \ DOMAIN columns, u)
                     /\ UserColumns(columns', u) = DOMAIN columns' \ DOMAIN columns
                ELSE columns' = columns
             /\ ecalls' = 2 => columns' = columns]_vars

C5_Witness ==
    /\ ecalls = 2
    /\ IsDefaultSet(columns, UserColumns(columns, euser), euser)
    /\ \E u \in 1..Len(users) : u # euser /\ UserColumns(columns, u) # {}

\* C8: a successful add creates one task of the requester with status
\* "todo" in a column of the requester: the column of the supplied id when
\* the requester owns it, otherwise the requester's column of lowest
\* position, the default columns being created first when there is none.
C8_AddResolvesColumn ==
    [][\A c \in Clients, t \in TitleInputs, due \in DueInputs,
          col \in ColumnIdInputs :
          (/\ resp'.flash = "Task added."
           /\ ~Blank(t)
           /\ session[c] # 0
           /\ add(c, t, <<>>, due, <<>>, col, FALSE))
          => LET u == session[c]
                 own == UserColumns(columns', u)
                 created == DOMAIN tasks' \ DOMAIN tasks
             IN  /\ Cardinality(created) = 1
                 /\ UserColumns(columns, u) = {} =>
                       IsDefaultSet(columns', own, u)
                 /\ UserColumns(columns, u) # {} => columns' = columns
                 /\ \A id \in created :
                       /\ tasks'[id].user_id = u
                       /\ tasks'[id].status = todo
                       /\ tasks'[id].column_id \in own
                       /\ IF \E k \in own : IsInt(col) /\ int(col) = k
                          THEN IsInt(col) /\ tasks'[id].column_id = int(col)
                          ELSE \A o \in own :
                                  columns'[tasks'[id].column_id].position
                                     <= columns'[o].position]_vars

C8_Witness ==
    /\ resp.flash = "Task added."
    /\ \E id \in DOMAIN tasks :
          /\ tasks[id].column_id \in UserColumns(columns, tasks[id].user_id)
          /\ columns[tasks[id].column_id].position = 1
    /\ \E id \in DOMAIN columns : columns[id].user_id = 2

--------------------------------------------------------------------------
(* Reminder worker: one thread, interleaved with the requests.  A cycle is *)
(* the query, then per task the test and the send, then the write and the  *)
(* commit; a commit expires every object of the session, so that the next  *)
(* attribute access reads the row again.                                   *)
SelectReminderTasksArmedOnly(tbl) == {id \in DOMAIN tbl : tbl[id].reminder_set}

\* Task.query.filter_by(reminder_set=True, complete=False)
SelectReminderTasks(tbl) ==
    {id \in DOMAIN tbl : tbl[id].reminder_set /\ ~tbl[id].complete}

RECURSIVE InIdOrder(_)
InIdOrder(S) ==
    IF S = {} THEN <<>>
    ELSE LET m == CHOOSE x \in S : \A y \in S : x <= y
         IN  <<m>> \o InIdOrder(S \ {m})

\* if t.due_date: ... 0 < (t.due_date - now).total_seconds() < 300
DueWithinWindow(due_date, now) ==
    /\ due_date # <<>>
    /\ 0 < due_date[1] - now
    /\ due_date[1] - now < WindowSeconds

NotDisarmed(row) == row

\* t.reminder_set = False
Disarmed(row) == [row EXCEPT !.reminder_set = FALSE]

reminder_worker_query ==
    /\ wpc = "sleep"
    /\ clock >= wwake
    /\ wnow' = clock
    /\ LET sel == SelectReminderTasks(tasks)
       IN  /\ wlist' = InIdOrder(sel)
           /\ wrows' = [id \in sel |-> tasks[id]]
           /\ attempts' = [id \in sel |-> <<>>]
    /\ wexp' = {}
    /\ wi' = 1
    /\ wpc' = "loop"
    /\ prevAttempts' = attempts
    /\ snapEligible' = {id \in DOMAIN tasks :
                           tasks[id].reminder_set /\ ~tasks[id].complete}
    /\ streak' = IF streak < 2 THEN streak + 1 ELSE 2
    /\ UNCHANGED <<users, columns, tasks, session, resp, mailConfigured, clock,
                   wwake, ecalls, euser>>

\* One iteration up to and including mail.send.  Reading t.due_date of an
\* expired object whose row is gone raises ObjectDeletedError outside the
\* try: the thread ends.
reminder_worker_send ==
    /\ wpc = "loop"
    /\ wi <= Len(wlist)
    /\ LET id == wlist[wi]
       IN  IF id \in wexp /\ id \notin DOMAIN tasks
           THEN /\ wpc' = "crashed"
                /\ wlist' = <<>>
                /\ wi' = 1
                /\ wrows' = <<>>
                /\ wexp' = {}
                /\ attempts' = attempts
           ELSE LET row == IF id \in wexp THEN tasks[id] ELSE wrows[id]
                IN  /\ wlist' = wlist
                    /\ wrows' = [wrows EXCEPT ![id] = row]
                    /\ wexp' = wexp \ {id}
                    /\ IF DueWithinWindow(row.due_date, wnow)
                       THEN /\ wpc' = "disarm"
                            /\ wi' = wi
                            /\ IF mailConfigured
                               THEN \E outcome \in {"sent", "raised"} :
                                       attempts' = [attempts EXCEPT
                                                       ![id] = Append(@, outcome)]
                               ELSE attempts' = attempts
                       ELSE /\ wpc' = "loop"
                            /\ wi' = wi + 1
                            /\ attempts' = attempts
    /\ UNCHANGED <<users, columns, tasks, session, resp, mailConfigured, clock,
                   wnow, wwake, prevAttempts, snapEligible, streak,
                   ecalls, euser>>

\* t.reminder_set = False; db.session.commit().  The flush writes
\* UPDATE task SET reminder_set WHERE id only when the value differs from
\* the loaded one, and raises StaleDataError when no row has that id.
reminder_worker_disarm ==
    /\ wpc = "disarm"
    /\ LET id == wlist[wi]
           row == wrows[id]
           new == Disarmed(row)
       IN  IF new.reminder_set # row.reminder_set /\ id \notin DOMAIN tasks
           THEN /\ wpc' = "crashed"
                /\ wlist' = <<>>
                /\ wi' = 1
                /\ wrows' = <<>>
                /\ wexp' = {}
                /\ tasks' = tasks
           ELSE /\ tasks' = IF new.reminder_set # row.reminder_set
                            THEN [tasks EXCEPT ![id].reminder_set = new.reminder_set]
                            ELSE tasks
                /\ wexp' = {wlist[k] : k \in 1..Len(wlist)}
                /\ wi' = wi + 1
                /\ wpc' = "loop"
                /\ UNCHANGED <<wlist, wrows>>
    /\ UNCHANGED <<users, columns, session, resp, mailConfigured, clock,
                   wnow, wwake, attempts, prevAttempts,
                   snapEligible, streak, ecalls, euser>>

\* the end of the for loop and of the app context: the session and its
\* objects are discarded; time.sleep(60) begins
reminder_worker_sleep ==
    /\ wpc = "loop"
    /\ wi > Len(wlist)
    /\ wpc' = "sleep"
    /\ wwake' = clock + SleepSeconds
    /\ wlist' = <<>>
    /\ wi' = 1
    /\ wrows' = <<>>
    /\ wexp' = {}
    /\ UNCHANGED <<users, columns, tasks, session, resp, mailConfigured, clock,
                   wnow, attempts, prevAttempts, snapEligible, streak,
                   ecalls, euser>>

Tick ==
    /\ clock < MaxCycles * SleepSeconds
    /\ clock' = clock + SleepSeconds
    /\ UNCHANGED <<users, columns, tasks, session, resp, mailConfigured,
                   wpc, wnow, wwake, wlist, wi, wrows, wexp,
                   attempts, prevAttempts, snapEligible, streak, ecalls, euser>>

\* a request while the worker runs
WorkerFrame ==
    /\ streak' = 0
    /\ UNCHANGED <<mailConfigured, clock, wpc, wnow, wwake, wlist, wi, wrows, wexp,
                   attempts, prevAttempts, snapEligible, ecalls, euser>>

WorkerDueInputs == {<<>>, <<"4">>, <<"5">>}
WorkerTaskIds == 1..MaxWorkerTasks

NextWorker ==
    \/ signup(<<"n">>, <<"a">>, <<"p">>) /\ WorkerFrame
    \/ \E c \in Clients : login(c, <<"a">>, <<"p">>) /\ WorkerFrame
    \/ \E c \in Clients, due \in WorkerDueInputs, rem \in BOOLEAN :
          /\ Cardinality(DOMAIN tasks) < MaxWorkerTasks
          /\ add(c, <<"a">>, <<>>, due, <<>>, <<>>, rem)
          /\ WorkerFrame
    \/ \E c \in Clients, id \in WorkerTaskIds : toggle_reminder(c, id) /\ WorkerFrame
    \/ \E c \in Clients, id \in WorkerTaskIds : toggle(c, id) /\ WorkerFrame
    \/ \E c \in Clients, id \in WorkerTaskIds : delete(c, id) /\ WorkerFrame
    \/ reminder_worker_query
    \/ reminder_worker_send
    \/ reminder_worker_disarm
    \/ reminder_worker_sleep
    \/ Tick

SpecWorker == Init /\ [][NextWorker]_vars

--------------------------------------------------------------------------
(* Claims about the reminder worker *)
InWindow(due_date, now) ==
    due_date # <<>> /\ now < due_date[1] /\ due_date[1] < now + WindowSeconds

\* C2: with mail configured, a cycle that no request interrupts makes exactly
\* one send attempt for every task that was armed, not complete and due
\* within (0, 300) seconds of the cycle's now, and leaves it disarmed,
\* whether the send raised or not; the next cycle, with no request in
\* between, makes no attempt for a task the cycle before attempted.
C2_OneAttemptThenDisarmed ==
    mailConfigured =>
       /\ (wpc = "sleep" /\ streak >= 1) =>
             \A id \in snapEligible :
                InWindow(tasks[id].due_date, wnow) =>
                   /\ id \in DOMAIN attempts
                   /\ Len(attempts[id]) = 1
                   /\ ~tasks[id].reminder_set
       /\ streak = 2 =>
             \A id \in DOMAIN prevAttempts :
                prevAttempts[id] # <<>> =>
                   (id \in DOMAIN attempts => attempts[id] = <<>>)

C2_Witness ==
    /\ mailConfigured
    /\ streak = 2
    /\ wpc = "sleep"
    /\ \E id \in DOMAIN tasks :
          /\ id \in DOMAIN prevAttempts
          /\ prevAttempts[id] = <<"raised">>
          /\ InWindow(tasks[id].due_date, wnow)
          /\ ~tasks[id].complete
          /\ ~tasks[id].reminder_set

\* C10 as claimed: whenever the worker makes a send attempt for a task, the
\* row exists, is armed and is not complete at that moment.
C10_AttemptOnlyIfLive ==
    [][(wpc = "loop" /\ wpc' = "disarm")
          => \A id \in DOMAIN attempts :
                attempts'[id] # attempts[id]
                => /\ id \in DOMAIN tasks
                   /\ tasks[id].reminder_set
                   /\ ~tasks[id].complete]_vars

\* C10 as amended: the worker makes a send attempt for an id only if a task
\* of that id was armed and not complete when the cycle's query ran.
C10_AttemptOnlyIfSelected ==
    \A id \in DOMAIN attempts : attempts[id] # <<>> => id \in snapEligible

C10_Witness ==
    /\ wpc = "disarm"
    /\ \E id \in snapEligible :
          /\ attempts[id] # <<>>
          /\ id \in DOMAIN tasks
          /\ tasks[id].complete

==========================================================================
